---- MODULE Spec2Model ----
(***************************************************************************)
(* State-machine model of pip/operations/prepare.py:                       *)
(* RequirementPreparer.prepare_requirement(req, resolver), the             *)
(* DistAbstraction factory make_abstract_dist and the property             *)
(* RequirementPreparer._download_should_save.                              *)
(*                                                                         *)
(* One run of the model is a sequence of at most MaxCalls calls of         *)
(* prepare_requirement on the same requirement object, with the same       *)
(* resolver and preparer, and no cleanup of the build directory between    *)
(* the calls.  Every call is cut into steps at the collaborator calls      *)
(* (pc names the next step).  Collaborators that live outside              *)
(* prepare.py (resolver._check_skip_installed, req.populate_link,          *)
(* req.hashes, unpack_url, req.check_if_exists, ...) are modelled by the   *)
(* outcomes their interface allows.                                        *)
(***************************************************************************)
EXTENDS Naturals, Sequences, FiniteSets

\* Number of prepare_requirement calls made on the requirement in one run.
MaxCalls == 2

None == "None"

-----------------------------------------------------------------------------
(* Links (pip.index.Link) and the pip.download predicates on them.         *)

GitLink == "git+https://host/repo#egg=pkg"
DirLink == "file:///local/pkg"
FileSdist == "file:///local/pkg-2.0.tar.gz"
HttpSdist == "https://host/pkg-2.0.tar.gz#sha256=linkdigest"
HttpWheel == "https://host/pkg-2.0-py2.py3-none-any.whl"

Links == {GitLink, DirLink, FileSdist, HttpSdist, HttpWheel}

\* Links an editable requirement can carry: a checkout or a local directory.
EditableLinks == {GitLink, DirLink}

\* Links resolver.finder can choose for a requirement that names no URL.
FinderLinks == {GitLink, HttpSdist, HttpWheel}

\* link.scheme
scheme(l) ==
    IF l = GitLink THEN "git+https"
    ELSE IF l \in {DirLink, FileSdist} THEN "file"
    ELSE "https"

\* vcs.all_schemes
vcs_all_schemes == {"git", "git+https", "git+ssh", "hg+https", "svn+https", "bzr+https"}

\* link.is_wheel
is_wheel(l) == l = HttpWheel

is_vcs_url(l) == scheme(l) \in vcs_all_schemes

is_file_url(l) == scheme(l) = "file"

is_dir_url(l) == l = DirLink

\* link.hash: the digest carried in the URL fragment, as a set.
link_hash(l) == IF l = HttpSdist THEN {"linkdigest"} ELSE {}

-----------------------------------------------------------------------------
(* Installed distributions (the installed-package index).                  *)

SiteDist == "pkg 1.0 (site-packages)"
UserDist == "pkg 1.0 (user site)"

Dists == {SiteDist, UserDist}

dist_in_usersite(d) == d = UserDist

-----------------------------------------------------------------------------
(* Hash sets (pip.utils.hashes).                                           *)

\* req.hashes(trust_internet): the hashes declared on the requirement,
\* plus the link's own hash when the internet is trusted.
req_hashes(r, trust_internet) ==
    [missing |-> FALSE,
     digests |-> r.options_hashes \cup
                 (IF trust_internet /\ r.link # None THEN link_hash(r.link) ELSE {})]

\* MissingHashes(): the facade that provokes hash computation and then fails.
MissingHashes == [missing |-> TRUE, digests |-> {}]

NoHashes == [missing |-> FALSE, digests |-> {}]

\* bool(hashes)
hashes_truthy(h) == h.missing \/ h.digests # {}

-----------------------------------------------------------------------------
VARIABLES
    req,        \* the InstallRequirement's fields
    resolver,   \* the Resolver's options read by prepare_requirement
    preparer,   \* the RequirementPreparer's download_dir and wheel_download_dir
    fs,         \* the file system: does download_dir exist, is setup.py in the build directory
    installed,  \* the installed distribution matching the requirement, or None
    pc,         \* position in the current call; "idle" between calls
    entry,      \* req and fs as they were when the current (or last) call began
    skip_reason,    \* local: what _check_skip_installed returned
    abstract_dist,  \* local: the DistAbstraction variant built so far
    hashes,         \* local: the hash set handed to unpack_url
    unpack,         \* the arguments and outcome of this call's unpack_url
    trace,      \* the collaborator calls made by the current (or last) call, in order
    prev,       \* the unpack_url record of the call before the current (or last) one
    history     \* the outcome of every finished call, in order

vars == <<req, resolver, preparer, fs, installed, pc, entry, skip_reason,
          abstract_dist, hashes, unpack, trace, prev, history>>

UpgradeStrategies == {"to-satisfy-only", "eager"}

DownloadDir == "/downloads"
WheelDownloadDir == "/wheelhouse"
SrcDir == "/src/pkg"
BuildDir == "/build/pkg"

NoUnpack == [called |-> FALSE, download_dir |-> None, autodelete_unpacked |-> FALSE,
             hashes |-> NoHashes, outcome |-> None]

\* Outcome records of a finished call.
Returned(d) == [exc |-> None, msg |-> None, value |-> d]
Raised(e, m) == [exc |-> e, msg |-> m, value |-> None]

calls == Len(history)

\* The outcome of the last finished call.
last == history[Len(history)]

Done == pc = "idle" /\ calls > 0

Called(e) == \E i \in DOMAIN trace : trace[i] = e

Init ==
    /\ \E ed \in BOOLEAN :
       \E ol \in (IF ed THEN EditableLinks ELSE Links \cup {None}) :
       \E pinned \in (IF ed THEN {FALSE} ELSE BOOLEAN) :
       \E oh \in (IF ed THEN {{}} ELSE {{}, {"declared"}}) :
          req = [editable |-> ed, link |-> ol, original_link |-> ol,
                 is_pinned |-> pinned, options_hashes |-> oh,
                 source_dir |-> None, satisfied_by |-> None,
                 conflicts_with |-> None]
    /\ resolver \in [ignore_installed : BOOLEAN, require_hashes : BOOLEAN,
                     upgrade_strategy : UpgradeStrategies, use_user_site : BOOLEAN]
    /\ preparer \in [download_dir : {None, DownloadDir},
                     wheel_download_dir : {None, WheelDownloadDir}]
    /\ fs \in [download_dir_exists : BOOLEAN, setup_py : BOOLEAN]
    /\ (preparer.download_dir = None => fs.download_dir_exists = FALSE)
    /\ installed \in Dists \cup {None}
    /\ pc = "idle"
    /\ entry = [req |-> req, fs |-> fs]
    /\ skip_reason = None
    /\ abstract_dist = None
    /\ hashes = NoHashes
    /\ unpack = NoUnpack
    /\ trace = <<>>
    /\ prev = [unpack |-> NoUnpack]
    /\ history = <<>>

-----------------------------------------------------------------------------
(* Helpers shared by the steps.                                            *)

\* The call ends by raising exception e.
Raise(e, m) ==
    /\ pc' = "idle"
    /\ history' = Append(history, Raised(e, m))

\* The call ends by returning abstract distribution d.
Return(d) ==
    /\ pc' = "idle"
    /\ history' = Append(history, Returned(d))

\* make_abstract_dist(req)
make_abstract_dist(r) ==
    IF r.editable THEN "IsSDist"
    ELSE IF r.link # None /\ is_wheel(r.link) THEN "IsWheel"
    ELSE "IsSDist"

\* Outcomes of abstract_dist.prep_for_dist(): IsSDist runs egg_info and
\* asserts the version, which can fail; IsWheel and Installed do nothing.
prep_for_dist_outcomes(d) ==
    IF d = "IsSDist" THEN {"ok", "InstallationError"} ELSE {"ok"}

\* RequirementPreparer._download_should_save: "True", "False" or "raise".
download_should_save ==
    IF preparer.download_dir # None
    THEN IF fs.download_dir_exists THEN "True" ELSE "raise"
    ELSE "False"

\* req.ensure_has_source_dir(parent_dir)
ensure_has_source_dir(r, dir) ==
    IF r.source_dir = None THEN [r EXCEPT !.source_dir = dir] ELSE r

\* req.check_if_exists(): satisfied_by becomes the matching installed distribution.
check_if_exists(r) == [r EXCEPT !.satisfied_by = installed]


-----------------------------------------------------------------------------
(* Collaborators outside prepare.py, by the outcomes their interface has.  *)

\* resolver._check_skip_installed(req): may find the installed distribution
\* (sets req.satisfied_by, returns a skip reason) or not (returns None).
check_skip_installed_outcomes ==
    IF installed = None THEN {FALSE} ELSE BOOLEAN

\* req.populate_link(finder, upgrade, require_hashes): a requirement that has
\* a link keeps it; otherwise the finder chooses one, or finds nothing.
populate_link_outcomes(r) ==
    IF r.link # None THEN {r.link} ELSE FinderLinks \cup {"DistributionNotFound"}

\* The calls populate_link makes: a requirement without a link is looked up
\* through the finder (finder.find_requirement), which reads the indexes.
populate_link_trace(r) ==
    <<"populate_link">> \o (IF r.link = None THEN <<"find_requirement">> ELSE <<>>)

is_archive(l) == ~is_vcs_url(l) /\ ~is_dir_url(l)

\* unpack_url(link, location, download_dir, autodelete, session, hashes):
\* the missing-hash facade always ends in HashMissing, a concrete hash set
\* can mismatch, and a remote link can fail in the transport.
unpack_url_outcomes(l, h) ==
    (IF ~is_archive(l) THEN {"ok"}
     ELSE IF h.missing THEN {"HashMissing"}
     ELSE IF h.digests # {} THEN {"ok", "HashMismatch"}
     ELSE {"ok"})
    \cup (IF scheme(l) = "https" THEN {"HTTPError", "ConnectionError"} ELSE {})

-----------------------------------------------------------------------------
(* The decisions prepare_requirement takes.                                *)

\* Mutant of entry_assertion_holds: the assertion is not made.
entry_assertion_dropped(r) == TRUE

\* line 159: assert req.satisfied_by is None (non-editable requirements only)
entry_assertion_holds(r) == r.satisfied_by = None

\* Mutant of editable_hash_conflict: only requirements that declare hashes
\* are refused.
editable_hash_conflict_only_declared(r) ==
    r.editable /\ resolver.require_hashes /\ r.options_hashes # {}

\* lines 187-188: an editable requirement under --require-hashes
editable_hash_conflict(r) == r.editable /\ resolver.require_hashes

\* Mutant of previous_build_exists: setup.py is looked for under the
\* source_dir the requirement had before ensure_has_source_dir.
previous_build_exists_stale_dir == fs.setup_py /\ req.source_dir # None

\* Mutant of previous_build_exists: the build directory is not looked at.
previous_build_exists_unchecked == FALSE

\* lines 220-221: os.path.exists(os.path.join(req.source_dir, 'setup.py'))
previous_build_exists == fs.setup_py

\* Mutant of hash_policy_error: the version-control and directory checks
\* are missing.
hash_policy_error_unpinned_only(r) ==
    IF ~resolver.require_hashes THEN None
    ELSE IF r.original_link = None /\ ~r.is_pinned THEN "HashUnpinned"
    ELSE None

\* Mutant of hash_policy_error: the pin check tests for a present
\* original_link.
hash_policy_error_pin_inverted(r) ==
    IF ~resolver.require_hashes THEN None
    ELSE IF is_vcs_url(r.link) THEN "VcsHashUnsupported"
    ELSE IF is_file_url(r.link) /\ is_dir_url(r.link) THEN "DirectoryUrlHashUnsupported"
    ELSE IF r.original_link # None /\ ~r.is_pinned THEN "HashUnpinned"
    ELSE None

\* Mutant of hash_policy_error: the pin check comes first.
hash_policy_error_pin_first(r) ==
    IF ~resolver.require_hashes THEN None
    ELSE IF r.original_link = None /\ ~r.is_pinned THEN "HashUnpinned"
    ELSE IF is_vcs_url(r.link) THEN "VcsHashUnsupported"
    ELSE IF is_file_url(r.link) /\ is_dir_url(r.link) THEN "DirectoryUrlHashUnsupported"
    ELSE None

\* lines 249-268: the error of the hash-policy checks, None when they pass.
hash_policy_error(r) ==
    IF ~resolver.require_hashes THEN None
    ELSE IF is_vcs_url(r.link) THEN "VcsHashUnsupported"
    ELSE IF is_file_url(r.link) /\ is_dir_url(r.link) THEN "DirectoryUrlHashUnsupported"
    ELSE IF r.original_link = None /\ ~r.is_pinned THEN "HashUnpinned"
    ELSE None

\* Mutant of effective_hashes: the internet is trusted exactly when hashes
\* are required.
effective_hashes_trusting(r) ==
    LET h == req_hashes(r, resolver.require_hashes)
    IN  IF resolver.require_hashes /\ ~hashes_truthy(h) THEN MissingHashes ELSE h

\* lines 269-276: the hash set handed to unpack_url.
effective_hashes(r) ==
    LET h == req_hashes(r, ~resolver.require_hashes)
    IN  IF resolver.require_hashes /\ ~hashes_truthy(h) THEN MissingHashes ELSE h

\* lines 279-286: the download_dir argument of unpack_url.
unpack_download_dir(r) ==
    IF is_wheel(r.link) /\ preparer.wheel_download_dir # None
    THEN preparer.wheel_download_dir
    ELSE preparer.download_dir

\* Mutant of autodelete_unpacked: an unpacked sdist is kept when archives
\* are saved to download_dir.
autodelete_unpacked_keeps_saved_sdist(r) ==
    IF is_wheel(r.link) THEN unpack_download_dir(r) # None
    ELSE preparer.download_dir = None

\* lines 281-295: the autodelete_unpacked argument of unpack_url.
autodelete_unpacked(r) ==
    IF is_wheel(r.link) THEN unpack_download_dir(r) # None ELSE TRUE

\* Mutant of caught_by_prepare: every requests exception is caught.
caught_any_request_exception(o) == o \in {"HTTPError", "ConnectionError"}

\* lines 301-312: the exceptions of unpack_url that are caught and wrapped.
caught_by_prepare(o) == o = "HTTPError"

\* Mutant of should_modify: the upgrade strategy is not consulted.
should_modify_always == TRUE

\* lines 325-328
should_modify ==
    resolver.upgrade_strategy # "to-satisfy-only" \/ resolver.ignore_installed

\* Mutant of may_uninstall: the user-site guard is missing.
may_uninstall_unguarded(d) == TRUE

\* lines 332-333: the existing distribution may be marked for uninstall.
may_uninstall(d) == ~(resolver.use_user_site /\ ~dist_in_usersite(d))

\* Mutant of resolve_conflict: satisfied_by is not cleared.
resolve_conflict_keeps_satisfied(r) ==
    IF r.satisfied_by # None /\ should_modify
    THEN [r EXCEPT !.conflicts_with =
                       IF may_uninstall(r.satisfied_by) THEN r.satisfied_by ELSE @]
    ELSE r

\* lines 324-342: conflict resolution after the re-check.
resolve_conflict(r) ==
    IF r.satisfied_by # None /\ should_modify
    THEN [r EXCEPT !.conflicts_with =
                       IF may_uninstall(r.satisfied_by) THEN r.satisfied_by ELSE @,
                   !.satisfied_by = None]
    ELSE r

\* Mutant of recheck_installed: ignore_installed is not consulted.
recheck_installed_always(r) == check_if_exists(r)

\* lines 322-323: the re-check of the installed state.
recheck_installed(r) ==
    IF ~resolver.ignore_installed THEN check_if_exists(r) ELSE r

-----------------------------------------------------------------------------
(* The steps of prepare_requirement.                                       *)

config == <<resolver, preparer, installed>>

\* lines 151-159: entry; the requirement must not be marked satisfied yet.
Call ==
    /\ pc = "idle"
    /\ calls < MaxCalls
    /\ entry' = [req |-> req, fs |-> fs]
    /\ prev' = [unpack |-> unpack]
    /\ trace' = <<>>
    /\ skip_reason' = None
    /\ abstract_dist' = None
    /\ hashes' = NoHashes
    /\ unpack' = NoUnpack
    /\ IF req.editable
       THEN pc' = "dispatch" /\ UNCHANGED history
       ELSE IF ~entry_assertion_holds(req)
       THEN Raise("AssertionError", "req.satisfied_by is None")
       ELSE IF ~resolver.ignore_installed
       THEN pc' = "check_skip_installed" /\ UNCHANGED history
       ELSE pc' = "dispatch" /\ UNCHANGED history
    /\ UNCHANGED <<req, fs, config>>

\* lines 160-171: skip_reason = resolver._check_skip_installed(req)
CheckSkipInstalled ==
    /\ pc = "check_skip_installed"
    /\ \E found \in check_skip_installed_outcomes :
          /\ req' = IF found THEN [req EXCEPT !.satisfied_by = installed] ELSE req
          /\ skip_reason' = IF found THEN "already satisfied" ELSE None
    /\ trace' = Append(trace, "check_skip_installed")
    /\ pc' = "dispatch"
    /\ UNCHANGED <<fs, config, entry, prev, abstract_dist, hashes, unpack, history>>

\* lines 187-192: editable under require_hashes is refused outright.
EditableRequireHashes ==
    /\ pc = "dispatch"
    /\ editable_hash_conflict(req)
    /\ Raise("InstallationError", "editable requirement cannot be installed when requiring hashes")
    /\ UNCHANGED <<req, fs, config, entry, prev, skip_reason, abstract_dist, hashes,
                   unpack, trace>>

\* line 193: req.ensure_has_source_dir(self.src_dir)
EnsureSourceDirEditable ==
    /\ pc = "dispatch"
    /\ req.editable
    /\ ~editable_hash_conflict(req)
    /\ req' = ensure_has_source_dir(req, SrcDir)
    /\ trace' = Append(trace, "ensure_has_source_dir(src_dir)")
    /\ pc' = "update_editable"
    /\ UNCHANGED <<fs, config, entry, prev, skip_reason, abstract_dist, hashes, unpack,
                   history>>

\* The trace of one evaluation of _download_should_save (lines 137-149).
download_should_save_trace ==
    IF preparer.download_dir # None THEN <<"exists(download_dir)">> ELSE <<>>

\* line 194: req.update_editable(not self._download_should_save)
UpdateEditable ==
    /\ pc = "update_editable"
    /\ IF download_should_save = "raise"
       THEN /\ trace' = trace \o download_should_save_trace
            /\ Raise("InstallationError", "Could not find or access download directory")
       ELSE /\ trace' = trace \o download_should_save_trace \o
                        <<IF download_should_save = "True"
                          THEN "update_editable(obtain=False)"
                          ELSE "update_editable(obtain=True)">>
            /\ pc' = "prep_editable"
            /\ UNCHANGED history
    /\ UNCHANGED <<req, fs, config, entry, prev, skip_reason, abstract_dist, hashes, unpack>>

\* lines 195-196: make_abstract_dist(req).prep_for_dist()
PrepEditable ==
    /\ pc = "prep_editable"
    /\ abstract_dist' = make_abstract_dist(req)
    /\ trace' = Append(trace, "prep_for_dist")
    /\ \E o \in prep_for_dist_outcomes(make_abstract_dist(req)) :
          IF o = "ok"
          THEN pc' = "archive_editable" /\ UNCHANGED history
          ELSE Raise(o, "egg_info failed or version mismatch")
    /\ UNCHANGED <<req, fs, config, entry, prev, skip_reason, hashes, unpack>>

\* Mutant of ArchiveEditable: the re-check honours ignore_installed, as the
\* one of the fresh-acquisition path does.
ArchiveEditableHonoursIgnoreInstalled ==
    /\ pc = "archive_editable"
    /\ IF download_should_save = "raise"
       THEN /\ trace' = trace \o download_should_save_trace
            /\ Raise("InstallationError", "Could not find or access download directory")
            /\ UNCHANGED req
       ELSE /\ trace' = trace \o download_should_save_trace \o
                        (IF download_should_save = "True" THEN <<"archive">> ELSE <<>>)
                        \o (IF ~resolver.ignore_installed THEN <<"check_if_exists">> ELSE <<>>)
            /\ req' = recheck_installed(req)
            /\ Return(abstract_dist)
    /\ UNCHANGED <<fs, config, entry, prev, skip_reason, abstract_dist, hashes, unpack>>

\* lines 197-199: archive when saving, re-check the installed state, return.
ArchiveEditable ==
    /\ pc = "archive_editable"
    /\ IF download_should_save = "raise"
       THEN /\ trace' = trace \o download_should_save_trace
            /\ Raise("InstallationError", "Could not find or access download directory")
            /\ UNCHANGED req
       ELSE /\ trace' = trace \o download_should_save_trace \o
                        (IF download_should_save = "True" THEN <<"archive">> ELSE <<>>)
                        \o <<"check_if_exists">>
            /\ req' = check_if_exists(req)
            /\ Return(abstract_dist)
    /\ UNCHANGED <<fs, config, entry, prev, skip_reason, abstract_dist, hashes, unpack>>

\* Mutant of ReturnInstalled: an installed requirement is refused when
\* hashes are required.
ReturnInstalledStrict ==
    /\ pc = "dispatch"
    /\ ~req.editable
    /\ req.satisfied_by # None
    /\ IF resolver.require_hashes
       THEN Raise("HashMissing", "installed without a hash") /\ UNCHANGED abstract_dist
       ELSE abstract_dist' = "Installed" /\ Return("Installed")
    /\ UNCHANGED <<req, fs, config, entry, prev, skip_reason, hashes, unpack, trace>>

\* lines 200-207: already satisfied; the Installed abstraction is returned.
ReturnInstalled ==
    /\ pc = "dispatch"
    /\ ~req.editable
    /\ req.satisfied_by # None
    /\ abstract_dist' = "Installed"
    /\ Return("Installed")
    /\ UNCHANGED <<req, fs, config, entry, prev, skip_reason, hashes, unpack, trace>>

\* lines 213-229: the build directory, and the guard against a previous build.
EnsureBuildDir ==
    /\ pc = "dispatch"
    /\ ~req.editable
    /\ req.satisfied_by = None
    /\ req' = ensure_has_source_dir(req, BuildDir)
    /\ trace' = trace \o <<"ensure_has_source_dir(build_dir)", "exists(setup.py)">>
    /\ IF previous_build_exists
       THEN Raise("PreviousBuildDirError", "pre-existing build directory")
       ELSE pc' = "populate_link" /\ UNCHANGED history
    /\ UNCHANGED <<fs, config, entry, prev, skip_reason, abstract_dist, hashes, unpack>>

\* Mutant of PopulateLink: a requirement that already has a link is not
\* handed to populate_link.
PopulateLinkOnlyWithoutLink ==
    /\ pc = "populate_link"
    /\ trace' = IF req.link = None THEN trace \o populate_link_trace(req) ELSE trace
    /\ \E l \in populate_link_outcomes(req) :
          IF l = "DistributionNotFound"
          THEN Raise("DistributionNotFound", "No matching distribution found") /\ UNCHANGED req
          ELSE req' = [req EXCEPT !.link = l] /\ pc' = "hash_policy" /\ UNCHANGED history
    /\ UNCHANGED <<fs, config, entry, prev, skip_reason, abstract_dist, hashes, unpack>>

\* lines 230-243: req.populate_link(...)
PopulateLink ==
    /\ pc = "populate_link"
    /\ trace' = trace \o populate_link_trace(req)
    /\ \E l \in populate_link_outcomes(req) :
          IF l = "DistributionNotFound"
          THEN Raise("DistributionNotFound", "No matching distribution found") /\ UNCHANGED req
          ELSE req' = [req EXCEPT !.link = l] /\ pc' = "hash_policy" /\ UNCHANGED history
    /\ UNCHANGED <<fs, config, entry, prev, skip_reason, abstract_dist, hashes, unpack>>

\* lines 249-276: the hash-policy checks and the hash set for unpack_url.
HashPolicy ==
    /\ pc = "hash_policy"
    /\ IF hash_policy_error(req) # None
       THEN Raise(hash_policy_error(req), "hash policy") /\ UNCHANGED <<hashes, trace>>
       ELSE /\ hashes' = effective_hashes(req)
            /\ trace' = Append(trace, "hashes")
            /\ pc' = "unpack_url"
            /\ UNCHANGED history
    /\ UNCHANGED <<req, fs, config, entry, prev, skip_reason, abstract_dist, unpack>>

\* lines 278-312: unpack_url, with HTTPError wrapped in InstallationError.
UnpackUrl ==
    /\ pc = "unpack_url"
    /\ trace' = Append(trace, "unpack_url")
    /\ \E o \in unpack_url_outcomes(req.link, hashes) :
          /\ unpack' = [called |-> TRUE,
                        download_dir |-> unpack_download_dir(req),
                        autodelete_unpacked |-> autodelete_unpacked(req),
                        hashes |-> hashes,
                        outcome |-> o]
          /\ IF o = "ok"
             THEN /\ fs' = [fs EXCEPT !.setup_py = IF is_wheel(req.link) THEN @ ELSE TRUE]
                  /\ pc' = "prep_for_dist"
                  /\ UNCHANGED history
             ELSE /\ UNCHANGED fs
                  /\ IF caught_by_prepare(o)
                     THEN Raise("InstallationError", "Could not install requirement because of HTTP error")
                     ELSE Raise(o, "raised by unpack_url")
    /\ UNCHANGED <<req, config, entry, prev, skip_reason, abstract_dist, hashes>>

\* lines 313-314: make_abstract_dist(req).prep_for_dist()
PrepForDist ==
    /\ pc = "prep_for_dist"
    /\ abstract_dist' = make_abstract_dist(req)
    /\ trace' = Append(trace, "prep_for_dist")
    /\ \E o \in prep_for_dist_outcomes(make_abstract_dist(req)) :
          IF o = "ok"
          THEN pc' = "archive" /\ UNCHANGED history
          ELSE Raise(o, "egg_info failed or version mismatch")
    /\ UNCHANGED <<req, fs, config, entry, prev, skip_reason, hashes, unpack>>

\* Mutant of Finish: the variant is chosen after the re-check, so a
\* requirement left satisfied is returned as Installed.
FinishVariantAfterRecheck ==
    /\ pc = "archive"
    /\ IF download_should_save = "raise"
       THEN /\ trace' = trace \o download_should_save_trace
            /\ Raise("InstallationError", "Could not find or access download directory")
            /\ UNCHANGED req
       ELSE /\ trace' = trace \o download_should_save_trace \o
                        (IF download_should_save = "True" /\ scheme(req.link) \in vcs_all_schemes
                         THEN <<"archive">> ELSE <<>>) \o
                        (IF ~resolver.ignore_installed THEN <<"check_if_exists">> ELSE <<>>)
            /\ req' = resolve_conflict(recheck_installed(req))
            /\ Return(IF resolve_conflict(recheck_installed(req)).satisfied_by # None
                      THEN "Installed" ELSE abstract_dist)
    /\ UNCHANGED <<fs, config, entry, prev, skip_reason, abstract_dist, hashes, unpack>>

\* lines 315-343: archive a checkout when saving, re-check the installed
\* state, resolve the conflict, return.
Finish ==
    /\ pc = "archive"
    /\ IF download_should_save = "raise"
       THEN /\ trace' = trace \o download_should_save_trace
            /\ Raise("InstallationError", "Could not find or access download directory")
            /\ UNCHANGED req
       ELSE /\ trace' = trace \o download_should_save_trace \o
                        (IF download_should_save = "True" /\ scheme(req.link) \in vcs_all_schemes
                         THEN <<"archive">> ELSE <<>>) \o
                        (IF ~resolver.ignore_installed THEN <<"check_if_exists">> ELSE <<>>)
            /\ req' = resolve_conflict(recheck_installed(req))
            /\ Return(abstract_dist)
    /\ UNCHANGED <<fs, config, entry, prev, skip_reason, abstract_dist, hashes, unpack>>

Next ==
    \/ Call
    \/ CheckSkipInstalled
    \/ EditableRequireHashes
    \/ EnsureSourceDirEditable
    \/ UpdateEditable
    \/ PrepEditable
    \/ ArchiveEditable
    \/ ReturnInstalled
    \/ EnsureBuildDir
    \/ PopulateLink
    \/ HashPolicy
    \/ UnpackUrl
    \/ PrepForDist
    \/ Finish

Spec == Init /\ [][Next]_vars


-----------------------------------------------------------------------------
(* Vocabulary of the properties.                                           *)

\* A call has begun: entry, trace and the locals describe it.
InCallOrDone == pc # "idle" \/ calls > 0

\* The last call went down the fresh-acquisition path as far as the
\* hash-policy checks: not editable, not found satisfied by the skip check,
\* no previous build in the build directory, and populate_link gave a link.
ReachedHashPolicy ==
    /\ Done
    /\ Called("populate_link")
    /\ last.exc # "DistributionNotFound"

\* The last call was a fresh acquisition that returned.
FreshReturned ==
    /\ Done
    /\ ~entry.req.editable
    /\ unpack.called
    /\ last.exc = None

DownloadDirMsg == "Could not find or access download directory"

EditableHashMsg == "editable requirement cannot be installed when requiring hashes"
HttpErrorMsg == "Could not install requirement because of HTTP error"

-----------------------------------------------------------------------------
\* C1: a call on an editable requirement under require_hashes never makes a
\* collaborator call (no source directory is ensured, the download
\* directory is not looked up, nothing is checked out or unpacked), never
\* changes the requirement or the file system, and ends by raising the
\* InstallationError about editable requirements and hashes.
C1_EditableUnderHashesFailsFirst ==
    (InCallOrDone /\ entry.req.editable /\ resolver.require_hashes) =>
        /\ trace = <<>>
        /\ req = entry.req
        /\ fs = entry.fs
        /\ ~unpack.called
        /\ pc \in {"dispatch", "idle"}
        /\ (Done => last = Raised("InstallationError", EditableHashMsg))

C1_Witness ==
    /\ Done
    /\ entry.req.editable
    /\ resolver.require_hashes
    /\ last.exc = "InstallationError"

-----------------------------------------------------------------------------
\* C2 as stated: under ignore_installed = false and to-satisfy-only, a call
\* that follows a call which returned Installed on the same requirement
\* object returns Installed as well, with conflicts_with unset.
C2_Original ==
    (/\ Done
     /\ calls >= 2
     /\ ~resolver.ignore_installed
     /\ resolver.upgrade_strategy = "to-satisfy-only"
     /\ history[calls - 1] = Returned("Installed")) =>
        /\ last = Returned("Installed")
        /\ req.conflicts_with = None

\* C2 amended: under ignore_installed = false and to-satisfy-only, a call
\* that returns Installed leaves satisfied_by set and conflicts_with unset;
\* the next call on the same object then fails the entry assertion
\* (satisfied_by must be None) and changes nothing.
C2_SecondCallFailsAssertion ==
    (/\ Done
     /\ ~resolver.ignore_installed
     /\ resolver.upgrade_strategy = "to-satisfy-only") =>
        /\ (last = Returned("Installed") =>
               /\ req.satisfied_by = installed
               /\ installed # None
               /\ req.conflicts_with = None)
        /\ ((calls >= 2 /\ history[calls - 1] = Returned("Installed")) =>
               /\ last.exc = "AssertionError"
               /\ trace = <<>>
               /\ req = entry.req
               /\ req.conflicts_with = None)

C2_Witness ==
    /\ Done
    /\ calls >= 2
    /\ ~resolver.ignore_installed
    /\ resolver.upgrade_strategy = "to-satisfy-only"
    /\ history[calls - 1] = Returned("Installed")
    /\ last.exc = "AssertionError"

-----------------------------------------------------------------------------
\* C3 as stated: under require_hashes, every call on a requirement whose
\* link is a version-control link ends in VcsHashUnsupported, and on one
\* whose link is a local directory in DirectoryUrlHashUnsupported.
C3_Original ==
    (Done /\ resolver.require_hashes /\ entry.req.link # None) =>
        /\ (is_vcs_url(entry.req.link) => last.exc = "VcsHashUnsupported")
        /\ ((is_file_url(entry.req.link) /\ is_dir_url(entry.req.link)) =>
               last.exc = "DirectoryUrlHashUnsupported")

\* C3 amended: under require_hashes, every call that reaches the hash-policy
\* checks (fresh acquisition, no previous build, link populated) ends in
\* VcsHashUnsupported when the link is a version-control link and in
\* DirectoryUrlHashUnsupported when it is a local directory.
C3_UnhashableLinkRefused ==
    (ReachedHashPolicy /\ resolver.require_hashes) =>
        /\ (scheme(req.link) = "git+https" => last.exc = "VcsHashUnsupported")
        /\ (req.link = DirLink => last.exc = "DirectoryUrlHashUnsupported")

C3_Witness ==
    /\ ReachedHashPolicy
    /\ resolver.require_hashes
    /\ req.link = GitLink
    /\ last.exc = "VcsHashUnsupported"

-----------------------------------------------------------------------------
\* C4 as stated: under require_hashes, every call on a requirement with no
\* original_link that is not pinned ends in HashUnpinned.
C4_Original ==
    (/\ Done
     /\ resolver.require_hashes
     /\ entry.req.original_link = None
     /\ ~entry.req.is_pinned) =>
        last.exc = "HashUnpinned"

\* C4 amended: under require_hashes, every call that reaches the hash-policy
\* checks with a link that is neither version control nor a local directory,
\* on a requirement with no original_link that is not pinned, ends in
\* HashUnpinned.
C4_UnpinnedRefused ==
    (/\ ReachedHashPolicy
     /\ resolver.require_hashes
     /\ scheme(req.link) # "git+https"
     /\ req.link # DirLink
     /\ req.original_link = None
     /\ ~req.is_pinned) =>
        last.exc = "HashUnpinned"

C4_Witness ==
    /\ ReachedHashPolicy
    /\ resolver.require_hashes
    /\ req.original_link = None
    /\ ~req.is_pinned
    /\ req.link = HttpSdist
    /\ last.exc = "HashUnpinned"

-----------------------------------------------------------------------------
\* C5 as stated: every call on a (non-editable) requirement whose build
\* directory holds setup.py when the call begins ends in
\* PreviousBuildDirError, leaves the directory alone and calls neither
\* populate_link nor unpack_url.
C5_Original ==
    (Done /\ ~entry.req.editable /\ entry.fs.setup_py) =>
        /\ last.exc = "PreviousBuildDirError"
        /\ fs = entry.fs
        /\ ~Called("populate_link")
        /\ ~unpack.called

\* C5 amended: every call on a non-editable requirement that passes the
\* entry assertion and is not found satisfied by the skip check, and whose
\* build directory holds setup.py when the call begins, ends in
\* PreviousBuildDirError, leaves the directory alone and calls neither
\* populate_link nor unpack_url.
C5_PreviousBuildRefused ==
    (/\ Done
     /\ ~entry.req.editable
     /\ entry.req.satisfied_by = None
     /\ skip_reason = None
     /\ entry.fs.setup_py) =>
        /\ last.exc = "PreviousBuildDirError"
        /\ fs = entry.fs
        /\ ~Called("populate_link")
        /\ ~Called("unpack_url")
        /\ ~unpack.called

C5_Witness ==
    /\ Done
    /\ ~entry.req.editable
    /\ entry.fs.setup_py
    /\ Called("exists(setup.py)")
    /\ last.exc = "PreviousBuildDirError"

-----------------------------------------------------------------------------
\* C6 as stated: with a distribution installed and upgrade_strategy eager,
\* a fresh acquisition that returns has cleared satisfied_by, has set
\* conflicts_with to the installed distribution, and returns an IsWheel or
\* IsSDist abstraction.
C6_Original ==
    (/\ FreshReturned
     /\ installed # None
     /\ resolver.upgrade_strategy = "eager") =>
        /\ req.satisfied_by = None
        /\ req.conflicts_with = installed
        /\ last.value \in {"IsWheel", "IsSDist"}

\* C6 amended: the same, provided ignore_installed is false (the re-check
\* runs) and the install is not a user-site install over a distribution
\* outside the user site.
C6_EagerUpgradeMarksConflict ==
    (/\ FreshReturned
     /\ installed # None
     /\ resolver.upgrade_strategy = "eager"
     /\ ~resolver.ignore_installed
     /\ ~(resolver.use_user_site /\ installed = SiteDist)) =>
        /\ req.satisfied_by = None
        /\ req.conflicts_with = installed
        /\ last.value \in {"IsWheel", "IsSDist"}
        /\ last.value = (IF req.link = HttpWheel THEN "IsWheel" ELSE "IsSDist")

C6_Witness ==
    /\ FreshReturned
    /\ resolver.upgrade_strategy = "eager"
    /\ ~resolver.ignore_installed
    /\ installed = SiteDist
    /\ req.conflicts_with = SiteDist
    /\ req.satisfied_by = None
    /\ last.value = "IsSDist"

-----------------------------------------------------------------------------
\* C7: in a fresh acquisition whose re-check finds an installed distribution
\* and whose upgrade strategy is not to-satisfy-only, satisfied_by is
\* cleared; conflicts_with stays unset when the install is a user-site
\* install and the distribution is outside the user site, and is the found
\* distribution in every other case.
C7_ScopeGuard ==
    (/\ FreshReturned
     /\ ~resolver.ignore_installed
     /\ installed # None
     /\ resolver.upgrade_strategy # "to-satisfy-only") =>
        /\ req.satisfied_by = None
        /\ req.conflicts_with =
               (IF resolver.use_user_site /\ installed = SiteDist
                THEN None ELSE installed)

C7_Witness ==
    /\ FreshReturned
    /\ Called("check_if_exists")
    /\ resolver.upgrade_strategy = "eager"
    /\ resolver.use_user_site
    /\ installed = SiteDist
    /\ req.satisfied_by = None
    /\ req.conflicts_with = None

-----------------------------------------------------------------------------
\* C8 as stated: under require_hashes, a call on a (non-editable)
\* requirement that declares no hashes, has an archive link and has an
\* original_link or is pinned, calls unpack_url with the MissingHashes
\* facade and fails, in that unpack_url call and nowhere before.
C8_Original ==
    (/\ Done
     /\ ~entry.req.editable
     /\ resolver.require_hashes
     /\ req.options_hashes = {}
     /\ req.link # None
     /\ is_archive(req.link)
     /\ (req.original_link # None \/ req.is_pinned)) =>
        /\ unpack.called
        /\ unpack.hashes = MissingHashes
        /\ unpack.outcome # "ok"
        /\ last.exc # None
        /\ trace[Len(trace)] = "unpack_url"

\* C8 amended: under require_hashes, a call that passes the hash-policy
\* checks (a fresh acquisition with no previous build and a populated link)
\* on a requirement that declares no hashes calls unpack_url with the
\* MissingHashes facade, never with an empty hash set or the link's own
\* hash, and fails in that unpack_url call.
C8_MissingHashesDeferred ==
    (/\ Done
     /\ Called("hashes")
     /\ resolver.require_hashes
     /\ req.options_hashes = {}) =>
        /\ unpack.called
        /\ unpack.hashes = [missing |-> TRUE, digests |-> {}]
        /\ unpack.outcome # "ok"
        /\ last.exc # None
        /\ trace[Len(trace)] = "unpack_url"
        /\ ~Called("prep_for_dist")

C8_Witness ==
    /\ Done
    /\ resolver.require_hashes
    /\ req.options_hashes = {}
    /\ req.link = HttpSdist
    /\ unpack.called
    /\ unpack.hashes = MissingHashes
    /\ last.exc = "HashMissing"

-----------------------------------------------------------------------------
\* C9 as stated: every transport failure of unpack_url ends the call with
\* the InstallationError that wraps it.
C9_Original ==
    (Done /\ unpack.called /\ unpack.outcome \in {"HTTPError", "ConnectionError"}) =>
        last = Raised("InstallationError", HttpErrorMsg)

\* C9 amended: an HTTPError of unpack_url ends the call with the
\* InstallationError that wraps it; any other transport failure (a
\* ConnectionError) leaves the call as it is.
C9_OnlyHttpErrorWrapped ==
    (Done /\ unpack.called) =>
        /\ (unpack.outcome = "HTTPError" =>
               last = Raised("InstallationError", HttpErrorMsg))
        /\ (unpack.outcome = "ConnectionError" => last.exc = "ConnectionError")

C9_Witness ==
    /\ Done
    /\ unpack.called
    /\ unpack.outcome = "HTTPError"
    /\ last.exc = "InstallationError"

-----------------------------------------------------------------------------
\* C10: a call in which the skip check marks a non-editable requirement as
\* satisfied returns Installed without an error, whether or not hashes are
\* required, makes no other collaborator call (no build directory,
\* populate_link, unpack_url, prep_for_dist), and leaves link and
\* conflicts_with as they were and satisfied_by as the skip check set it.
C10_SatisfiedReturnsInstalled ==
    (Done /\ ~entry.req.editable /\ skip_reason # None) =>
        /\ last = Returned("Installed")
        /\ trace = <<"check_skip_installed">>
        /\ ~unpack.called
        /\ fs = entry.fs
        /\ req.satisfied_by = installed
        /\ req.satisfied_by # None
        /\ req = [entry.req EXCEPT !.satisfied_by = installed]

C10_Witness ==
    /\ Done
    /\ ~entry.req.editable
    /\ skip_reason # None
    /\ resolver.require_hashes
    /\ last = Returned("Installed")

-----------------------------------------------------------------------------
\* C11 as stated: unpack_url gets wheel_download_dir for a wheel when that
\* directory is configured and download_dir otherwise; autodelete_unpacked
\* is, for a non-wheel link, false exactly when download_dir is configured
\* (the archive is to be retained), and for a wheel true exactly when the
\* directory it gets is set.
C11_Original ==
    (InCallOrDone /\ unpack.called) =>
        /\ unpack.download_dir =
               (IF req.link = HttpWheel /\ preparer.wheel_download_dir # None
                THEN preparer.wheel_download_dir ELSE preparer.download_dir)
        /\ unpack.autodelete_unpacked =
               (IF req.link = HttpWheel
                THEN unpack.download_dir # None
                ELSE preparer.download_dir = None)

\* C11 amended: the same directory; autodelete_unpacked is true for every
\* non-wheel link, whatever download_dir is, and for a wheel true exactly
\* when the directory it gets is set.
C11_UnpackArguments ==
    (InCallOrDone /\ unpack.called) =>
        /\ unpack.download_dir =
               (IF req.link = HttpWheel /\ preparer.wheel_download_dir # None
                THEN preparer.wheel_download_dir ELSE preparer.download_dir)
        /\ unpack.autodelete_unpacked =
               (IF req.link = HttpWheel THEN unpack.download_dir # None ELSE TRUE)

C11_Witness ==
    /\ Done
    /\ unpack.called
    /\ req.link = HttpSdist
    /\ preparer.download_dir = DownloadDir
    /\ fs.download_dir_exists
    /\ preparer.wheel_download_dir = WheelDownloadDir
    /\ unpack.download_dir = DownloadDir
    /\ unpack.autodelete_unpacked

-----------------------------------------------------------------------------
\* C12: with download_dir configured and missing, a call never checks out
\* the editable source and never hands download_dir to unpack_url, and a
\* call that ends with the InstallationError about the download directory
\* has not called unpack_url at all.
C12_DownloadDirCheckedBeforeUse ==
    (/\ InCallOrDone
     /\ preparer.download_dir # None
     /\ ~fs.download_dir_exists) =>
        /\ ~Called("update_editable(obtain=True)")
        /\ ~Called("update_editable(obtain=False)")
        /\ (unpack.called => unpack.download_dir # preparer.download_dir)
        /\ ((Done /\ last = Raised("InstallationError", DownloadDirMsg)) =>
               ~unpack.called)

-----------------------------------------------------------------------------
\* The call before the last one was a fresh acquisition that failed after
\* unpack_url had unpacked the link into the build directory.
PreviousCallFailedAfterUnpack ==
    /\ Done
    /\ calls >= 2
    /\ ~entry.req.editable
    /\ history[calls - 1].exc # None
    /\ prev.unpack.called
    /\ prev.unpack.outcome = "ok"

-----------------------------------------------------------------------------
HashPolicyErrors == {"VcsHashUnsupported", "DirectoryUrlHashUnsupported", "HashUnpinned"}

\* C14: the hash-policy checks raise only under require_hashes, and the
\* first that matches wins: a version-control link ends in
\* VcsHashUnsupported and a local directory in DirectoryUrlHashUnsupported
\* whether or not the requirement is also unpinned without an
\* original_link, and HashUnpinned is raised only for a link that is
\* neither; without require_hashes no call ends in any of the three.
C14_HashPolicyPrecedence ==
    /\ (Done /\ last.exc \in HashPolicyErrors) => resolver.require_hashes
    /\ (ReachedHashPolicy /\ resolver.require_hashes) =>
          IF req.link = GitLink THEN last.exc = "VcsHashUnsupported"
          ELSE IF req.link = DirLink THEN last.exc = "DirectoryUrlHashUnsupported"
          ELSE (last.exc = "HashUnpinned") <=> (req.original_link = None /\ ~req.is_pinned)

\* A requirement without an original_link, not pinned, for which the finder
\* chose a version-control link: two checks match, the first one raised.
C14_Witness ==
    /\ ReachedHashPolicy
    /\ resolver.require_hashes
    /\ req.link = GitLink
    /\ req.original_link = None
    /\ ~req.is_pinned
    /\ last.exc = "VcsHashUnsupported"

-----------------------------------------------------------------------------
\* C15 as stated: a call that ends in VcsHashUnsupported,
\* DirectoryUrlHashUnsupported or HashUnpinned has called neither unpack_url
\* nor the finder's candidate lookup.
C15_Original ==
    (Done /\ last.exc \in HashPolicyErrors) =>
        /\ ~unpack.called
        /\ ~Called("unpack_url")
        /\ ~Called("find_requirement")

\* C15: a call that ends in VcsHashUnsupported, DirectoryUrlHashUnsupported
\* or HashUnpinned has not called unpack_url, but it has called
\* populate_link, and with it the finder's candidate lookup when the
\* requirement entered the call without a link.
C15_PolicyErrorsBeforeDownload ==
    (Done /\ last.exc \in HashPolicyErrors) =>
        /\ ~unpack.called
        /\ ~Called("unpack_url")
        /\ Called("populate_link")
        /\ (entry.req.link = None <=> Called("find_requirement"))

\* A requirement without a link for which the finder chose an archive; it is
\* not pinned, and the call ended in HashUnpinned after the lookup.
C15_Witness ==
    /\ Done
    /\ last.exc = "HashUnpinned"
    /\ entry.req.link = None
    /\ req.link = HttpSdist
    /\ Called("find_requirement")
    /\ ~unpack.called

-----------------------------------------------------------------------------
\* The collaborator calls of a complete editable preparation, in order, with
\* and without archive retention (download_dir) configured.
EditableSequence ==
    IF preparer.download_dir # None
    THEN <<"ensure_has_source_dir(src_dir)", "exists(download_dir)",
           "update_editable(obtain=False)", "prep_for_dist",
           "exists(download_dir)", "archive", "check_if_exists">>
    ELSE <<"ensure_has_source_dir(src_dir)", "update_editable(obtain=True)",
           "prep_for_dist", "check_if_exists">>

IsPrefix(s, t) == Len(s) <= Len(t) /\ \A i \in DOMAIN s : s[i] = t[i]

\* C16: the call of an editable requirement without require_hashes makes
\* its collaborator calls in the order source directory under src_dir,
\* update_editable, prep_for_dist of an IsSDist, archive, check_if_exists;
\* update_editable may obtain exactly when download_dir is not configured
\* and the archive is made exactly when it is; a call that returns has made
\* all of them, check_if_exists included whatever ignore_installed is, and
\* a call that raises has stopped short of the end.
C16_EditableOrdering ==
    (InCallOrDone /\ entry.req.editable /\ ~resolver.require_hashes) =>
        /\ IsPrefix(trace, EditableSequence)
        /\ (Done /\ last.exc = None) =>
              trace = EditableSequence /\ last.value = "IsSDist"
        /\ (Done /\ last.exc # None) => trace # EditableSequence

\* An editable preparation that returned with ignore_installed set and
\* download_dir configured: the archive was made and the re-check ran.
C16_Witness ==
    /\ Done
    /\ entry.req.editable
    /\ ~resolver.require_hashes
    /\ resolver.ignore_installed
    /\ preparer.download_dir # None
    /\ last.exc = None
    /\ Called("archive")
    /\ Called("check_if_exists")
    /\ installed # None
    /\ req.satisfied_by = installed

-----------------------------------------------------------------------------
\* The last call was a fresh acquisition whose re-check of the installed
\* state ran and found a matching installed distribution.
RecheckFoundInstalled ==
    /\ Done
    /\ ~entry.req.editable
    /\ unpack.called
    /\ Called("check_if_exists")
    /\ installed # None

\* C17: a fresh acquisition whose re-check finds a matching installed
\* distribution, under upgrade_strategy "to-satisfy-only" and without
\* ignore_installed, returns without error with satisfied_by set to that
\* distribution and conflicts_with left unset.
C17_NoModifyOutcome ==
    (/\ RecheckFoundInstalled
     /\ resolver.upgrade_strategy = "to-satisfy-only"
     /\ ~resolver.ignore_installed) =>
        /\ last.exc = None
        /\ last.value \in {"IsWheel", "IsSDist"}
        /\ req.satisfied_by = installed
        /\ req.conflicts_with = None
        /\ req.conflicts_with = entry.req.conflicts_with

\* Such a call: the skip check ran and did not mark the requirement, the
\* archive was unpacked, and the re-check then found the installed one.
C17_Witness ==
    /\ RecheckFoundInstalled
    /\ resolver.upgrade_strategy = "to-satisfy-only"
    /\ ~resolver.ignore_installed
    /\ Called("check_skip_installed")
    /\ entry.req.satisfied_by = None
    /\ req.satisfied_by = installed
    /\ last.exc = None

-----------------------------------------------------------------------------
\* C18: the returned variant is the one built before the re-check of the
\* installed state: Installed is returned exactly when the skip check of
\* this call marked the requirement satisfied, and an editable preparation
\* or a fresh acquisition returns IsWheel or IsSDist even when the call
\* ends with satisfied_by set.
C18_VariantFixedBeforeRecheck ==
    (Done /\ last.exc = None) =>
        /\ last.value = abstract_dist
        /\ (last.value = "Installed") <=> (skip_reason # None)
        /\ skip_reason # None =>
              /\ ~entry.req.editable
              /\ Called("check_skip_installed")
              /\ entry.req.satisfied_by = None
              /\ req.satisfied_by # None
        /\ (entry.req.editable \/ unpack.called) => last.value \in {"IsWheel", "IsSDist"}

\* A fresh acquisition that returned a wheel with satisfied_by set by the
\* re-check.
C18_Witness ==
    /\ FreshReturned
    /\ Called("check_if_exists")
    /\ req.satisfied_by # None
    /\ skip_reason = None
    /\ last.value = "IsWheel"

-----------------------------------------------------------------------------
\* C19: under ignore_installed the call of a non-editable requirement runs
\* neither the skip check nor the re-check, so satisfied_by stays None and
\* conflicts_with stays as it was; hence a call changes conflicts_with only
\* without ignore_installed and with an upgrade_strategy other than
\* "to-satisfy-only".
C19_IgnoreInstalledNeverConsults ==
    /\ (InCallOrDone /\ ~entry.req.editable /\ resolver.ignore_installed) =>
          /\ ~Called("check_skip_installed")
          /\ ~Called("check_if_exists")
          /\ skip_reason = None
          /\ (Done /\ last.exc = None) => req.satisfied_by = None
          /\ req.satisfied_by = entry.req.satisfied_by
          /\ req.conflicts_with = entry.req.conflicts_with
    /\ (InCallOrDone /\ req.conflicts_with # entry.req.conflicts_with) =>
          /\ ~resolver.ignore_installed
          /\ resolver.upgrade_strategy # "to-satisfy-only"

\* A fresh acquisition that returned under ignore_installed with an upgrade
\* strategy that would modify, while a matching distribution is installed.
C19_Witness ==
    /\ FreshReturned
    /\ resolver.ignore_installed
    /\ resolver.upgrade_strategy = "eager"
    /\ installed # None
    /\ req.satisfied_by = None
    /\ req.conflicts_with = None

====
